---- MODULE Spec2Model ----
(***************************************************************************)
(* Model of the S-REITs digest: the technical-indicator engine             *)
(* (src/analyzer.py: calculate_rsi, calculate_sma, analyze_reit), the      *)
(* fundamentals and aggregation of src/data_fetcher.py, the rankings of    *)
(* src/telegram_bot.py and src/dashboard_gen.py, and main() of src/main.py.*)
(* Spec runs analyze_reit, SpecLib one call of a library function,         *)
(* SpecMain one run of main().                                             *)
(*                                                                         *)
(* Numbers.  Closes are positive integers (a price in ticks).  Every value *)
(* the code computes in floating point is kept as an exact fraction        *)
(* num/den, or as NaN: a record [nan, num, den] with den > 0.  Division by *)
(* zero follows IEEE-754 as pandas applies it (x/0 = inf for x > 0,        *)
(* 0/0 = NaN); comparisons with NaN are false; round(NaN, k) is NaN.       *)
(***************************************************************************)
EXTENDS Integers, Sequences, FiniteSets, TLC

VARIABLES
    \* analyze_reit: its argument, position and return value
    hist_data, pc, result,
    \* one call of a data_fetcher / dashboard / notifier function
    fn, stage, args, ret,
    \* main(): position, locals and the order of its effects
    mpc, reits_config, idx, fundamental_data, all_reits_data,
    sector_summary, portfolio_metrics, trace, main_ret

analyzerVars == <<pc, result>>
libVars == <<fn, stage, args, ret>>
mainVars == <<mpc, reits_config, idx, fundamental_data, all_reits_data,
              sector_summary, portfolio_metrics, trace, main_ret>>

vars == <<hist_data, analyzerVars, libVars, mainVars>>

\* the variables of the functions that are not running
LibIdle ==
    fn = "idle" /\ stage = "idle" /\ args = <<>> /\ ret = <<>>
MainIdle ==
    /\ mpc = "idle" /\ reits_config = <<>> /\ idx = 0
    /\ fundamental_data = <<>> /\ all_reits_data = <<>>
    /\ sector_summary = <<>> /\ portfolio_metrics = <<>>
    /\ trace = <<>> /\ main_ret = <<>>

---------------------------------------------------------------------------
(* Bounds of the model *)

\* longest price series supplied to analyze_reit
MaxLen == 51
\* longest series whose closes are drawn freely from ShortPrices
MaxShort == 5

\* first close and day-over-day moves of the two-segment series
StartPrices == {100}
Deltas == {-1, 0, 1, 2}
ShortPrices == {90, 100, 110}

---------------------------------------------------------------------------
(* Program constants *)

RSI_PERIOD == 14
SMA_SHORT == 20
SMA_LONG == 50
WEEK_BACK == 5
MONTH_BACK == 20
RSI_OVERBOUGHT == 70
RSI_OVERSOLD == 30
MOMENTUM_PCT == 5
RSI_DEFAULT == 50

---------------------------------------------------------------------------
(* Floating-point values as exact fractions *)

NaN == [nan |-> TRUE, num |-> 0, den |-> 1]
F(n, d) == [nan |-> FALSE, num |-> n, den |-> d]

IsNaN(x) == x.nan
\* x > y, x < y, x = y on floats: false as soon as one side is NaN
Gt(x, y) == ~x.nan /\ ~y.nan /\ x.num * y.den > y.num * x.den
Lt(x, y) == ~x.nan /\ ~y.nan /\ x.num * y.den < y.num * x.den
Eq(x, y) == ~x.nan /\ ~y.nan /\ x.num * y.den = y.num * x.den

Pow10(k) == IF k = 0 THEN 1 ELSE IF k = 1 THEN 10 ELSE 100

\* round(x, ndigits): round half to even at 10^-ndigits; NaN stays NaN
Round(x, ndigits) ==
    IF x.nan THEN NaN
    ELSE LET s == x.num * Pow10(ndigits)
             q == s \div x.den
             r == s - q * x.den
         IN  IF 2 * r < x.den THEN F(q, Pow10(ndigits))
             ELSE IF 2 * r > x.den THEN F(q + 1, Pow10(ndigits))
             ELSE IF q % 2 = 0 THEN F(q, Pow10(ndigits))
             ELSE F(q + 1, Pow10(ndigits))

---------------------------------------------------------------------------
(* pandas Series helpers; a Series is a sequence, iloc[-k] is ILoc(s, k) *)

ILoc(s, k) == s[Len(s) - k + 1]

\* prices.diff() at row i (row 1 is NaN, replaced by 0 in .where(cond, 0))
GainAt(prices, i) ==
    IF i = 1 THEN 0
    ELSE IF prices[i] - prices[i - 1] > 0 THEN prices[i] - prices[i - 1] ELSE 0

LossAt(prices, i) ==
    IF i = 1 THEN 0
    ELSE IF prices[i] - prices[i - 1] < 0 THEN prices[i - 1] - prices[i] ELSE 0

RECURSIVE SumGain(_, _, _)
SumGain(prices, lo, hi) ==
    IF lo > hi THEN 0 ELSE GainAt(prices, hi) + SumGain(prices, lo, hi - 1)

RECURSIVE SumLoss(_, _, _)
SumLoss(prices, lo, hi) ==
    IF lo > hi THEN 0 ELSE LossAt(prices, hi) + SumLoss(prices, lo, hi - 1)

RECURSIVE SumClose(_, _, _)
SumClose(prices, lo, hi) ==
    IF lo > hi THEN 0 ELSE prices[hi] + SumClose(prices, lo, hi - 1)

---------------------------------------------------------------------------
(* src/analyzer.py *)

\* the last row of the rsi Series; 50 only when the Series has no row
calculate_rsi(prices, period) ==
    LET n == Len(prices)
        gain == SumGain(prices, n - period + 1, n)
        loss == SumLoss(prices, n - period + 1, n)
    IN  IF n = 0 THEN F(RSI_DEFAULT, 1)
        ELSE IF n < period THEN NaN
        ELSE IF loss = 0 /\ gain = 0 THEN NaN
        ELSE IF loss = 0 THEN F(100, 1)
        ELSE F(100 * gain, gain + loss)

\* mutant: the rolling window needs one row more than its size
calculate_sma_OffByOne(prices, period) ==
    [i \in 1..Len(prices) |->
        IF i <= period THEN NaN
        ELSE F(SumClose(prices, i - period + 1, i), period)]

\* prices.rolling(window=period).mean(): NaN on the first period-1 rows
calculate_sma(prices, period) ==
    [i \in 1..Len(prices) |->
        IF i < period THEN NaN
        ELSE F(SumClose(prices, i - period + 1, i), period)]

Insight(text, arg) == [text |-> text, arg |-> arg]
NoArg == NaN

\* mutant: the empty-input result carries no rsi value
DegenerateResult_NoRsi ==
    [change_pct |-> F(0, 1), rsi |-> NaN, trend |-> "Neutral",
     insights |-> <<Insight("No data available", NoArg)>>]

DegenerateResult ==
    [change_pct |-> F(0, 1), rsi |-> F(RSI_DEFAULT, 1), trend |-> "Neutral",
     insights |-> <<Insight("No data available", NoArg)>>]

\* mutant: five closes are not yet enough for a weekly change
ChangePct_Strict(close_prices) ==
    IF Len(close_prices) > WEEK_BACK
    THEN LET week_ago_price == ILoc(close_prices, WEEK_BACK)
             current_price == ILoc(close_prices, 1)
         IN  Round(F((current_price - week_ago_price) * 100, week_ago_price), 2)
    ELSE F(0, 1)

ChangePct(close_prices) ==
    IF Len(close_prices) >= WEEK_BACK
    THEN LET week_ago_price == ILoc(close_prices, WEEK_BACK)
             current_price == ILoc(close_prices, 1)
         IN  Round(F((current_price - week_ago_price) * 100, week_ago_price), 2)
    ELSE F(0, 1)

\* mutant: a missing SMA is replaced by 0 instead of the current close
SmaValue_ZeroDefault(close_prices, period) ==
    LET sma == calculate_sma(close_prices, period)
    IN  IF Len(sma) > 0 /\ ~IsNaN(ILoc(sma, 1))
        THEN ILoc(sma, 1)
        ELSE F(0, 1)

SmaValue(close_prices, period) ==
    LET sma == calculate_sma(close_prices, period)
    IN  IF Len(sma) > 0 /\ ~IsNaN(ILoc(sma, 1))
        THEN ILoc(sma, 1)
        ELSE F(ILoc(close_prices, 1), 1)

\* mutant: one SMA is enough for a bullish or bearish call
Trend_Either(current_price, sma_20_value, sma_50_value) ==
    IF Gt(current_price, sma_20_value) \/ Gt(current_price, sma_50_value)
    THEN "Bullish"
    ELSE IF Lt(current_price, sma_20_value) \/ Lt(current_price, sma_50_value)
    THEN "Bearish"
    ELSE "Neutral"

Trend(current_price, sma_20_value, sma_50_value) ==
    IF Gt(current_price, sma_20_value) /\ Gt(current_price, sma_50_value)
    THEN "Bullish"
    ELSE IF Lt(current_price, sma_20_value) /\ Lt(current_price, sma_50_value)
    THEN "Bearish"
    ELSE "Neutral"

RsiInsight(rsi) ==
    IF Gt(rsi, F(RSI_OVERBOUGHT, 1))
    THEN <<Insight("Overbought (RSI > 70) - Overvaluation Risk", NoArg)>>
    ELSE IF Lt(rsi, F(RSI_OVERSOLD, 1))
    THEN <<Insight("Oversold (RSI < 30) - Potential Value", NoArg)>>
    ELSE <<Insight("Trading within normal range", NoArg)>>

\* mutant: the two trend messages are swapped
TrendInsight_Swapped(trend) ==
    IF trend = "Bullish"
    THEN <<Insight("Downtrend (Below 20 & 50 SMA)", NoArg)>>
    ELSE IF trend = "Bearish"
    THEN <<Insight("Strong Uptrend (Above 20 & 50 SMA)", NoArg)>>
    ELSE <<>>

TrendInsight(trend) ==
    IF trend = "Bullish"
    THEN <<Insight("Strong Uptrend (Above 20 & 50 SMA)", NoArg)>>
    ELSE IF trend = "Bearish"
    THEN <<Insight("Downtrend (Below 20 & 50 SMA)", NoArg)>>
    ELSE <<>>

MonthlyChange(close_prices) ==
    F((ILoc(close_prices, 1) - ILoc(close_prices, MONTH_BACK)) * 100,
      ILoc(close_prices, MONTH_BACK))

\* mutant: a move of exactly 5% already counts as momentum
MomentumInsight_Inclusive(close_prices) ==
    IF Len(close_prices) >= MONTH_BACK
    THEN LET monthly_change == MonthlyChange(close_prices)
         IN  IF ~Lt(monthly_change, F(MOMENTUM_PCT, 1))
             THEN <<Insight("Strong momentum (+{}% monthly)",
                            Round(monthly_change, 1))>>
             ELSE IF ~Gt(monthly_change, F(-MOMENTUM_PCT, 1))
             THEN <<Insight("Weak momentum ({}% monthly)",
                            Round(monthly_change, 1))>>
             ELSE <<>>
    ELSE <<>>

MomentumInsight(close_prices) ==
    IF Len(close_prices) >= MONTH_BACK
    THEN LET monthly_change == MonthlyChange(close_prices)
         IN  IF Gt(monthly_change, F(MOMENTUM_PCT, 1))
             THEN <<Insight("Strong momentum (+{}% monthly)",
                            Round(monthly_change, 1))>>
             ELSE IF Lt(monthly_change, F(-MOMENTUM_PCT, 1))
             THEN <<Insight("Weak momentum ({}% monthly)",
                            Round(monthly_change, 1))>>
             ELSE <<>>
    ELSE <<>>

analyze_reit(hist) ==
    IF hist.isNone \/ Len(hist.Close) = 0
    THEN DegenerateResult
    ELSE LET close_prices == hist.Close
             change_pct == ChangePct(close_prices)
             rsi == Round(calculate_rsi(close_prices, RSI_PERIOD), 1)
             current_price == F(ILoc(close_prices, 1), 1)
             sma_20_value == SmaValue(close_prices, SMA_SHORT)
             sma_50_value == SmaValue(close_prices, SMA_LONG)
             trend == Trend(current_price, sma_20_value, sma_50_value)
         IN  [change_pct |-> change_pct,
              rsi |-> rsi,
              trend |-> trend,
              insights |-> RsiInsight(rsi) \o TrendInsight(trend)
                             \o MomentumInsight(close_prices)]

---------------------------------------------------------------------------
(* Inputs: the price series a caller can hand to analyze_reit *)

\* close number i of a series that starts at p0, moves by d1 a day for n1
\* days and then by d2 a day
RampAt(p0, d1, n1, d2, i) ==
    IF i - 1 <= n1 THEN p0 + d1 * (i - 1)
    ELSE p0 + d1 * n1 + d2 * (i - 1 - n1)

Ramp(p0, d1, n1, d2, n2) ==
    [i \in 1..(1 + n1 + n2) |-> RampAt(p0, d1, n1, d2, i)]

RampSeries ==
    {Ramp(p0, d1, n1, d2, n2) :
        p0 \in StartPrices, d1 \in Deltas, d2 \in Deltas,
        n1 \in 0..(MaxLen - 1), n2 \in 0..(MaxLen - 1)}

RECURSIVE SeqsUpTo(_, _)
SeqsUpTo(S, n) ==
    IF n = 0 THEN {<<>>}
    ELSE LET shorter == SeqsUpTo(S, n - 1)
         IN  shorter \cup {Append(s, x) : s \in {t \in shorter : Len(t) = n - 1}, x \in S}

InputSeries ==
    {s \in RampSeries : Len(s) <= MaxLen} \cup (SeqsUpTo(ShortPrices, MaxShort) \ {<<>>})

NoResult == [change_pct |-> NaN, rsi |-> NaN, trend |-> "", insights |-> <<>>]

---------------------------------------------------------------------------
(* State machine: a caller binds hist_data, analyze_reit returns *)

Init ==
    /\ pc = "call"
    /\ hist_data = [isNone |-> TRUE, Close |-> <<>>]
    /\ result = NoResult
    /\ LibIdle /\ MainIdle

\* analyze_reit(None)
CallNone ==
    /\ pc = "call"
    /\ hist_data' = [isNone |-> TRUE, Close |-> <<>>]
    /\ pc' = "body"
    /\ UNCHANGED <<result, libVars, mainVars>>

\* analyze_reit(empty DataFrame)
CallEmpty ==
    /\ pc = "call"
    /\ hist_data' = [isNone |-> FALSE, Close |-> <<>>]
    /\ pc' = "body"
    /\ UNCHANGED <<result, libVars, mainVars>>

\* analyze_reit(DataFrame with a non-empty Close column)
CallSeries ==
    /\ pc = "call"
    /\ \E s \in InputSeries : hist_data' = [isNone |-> FALSE, Close |-> s]
    /\ pc' = "body"
    /\ UNCHANGED <<result, libVars, mainVars>>

Analyze ==
    /\ pc = "body"
    /\ result' = analyze_reit(hist_data)
    /\ pc' = "return"
    /\ UNCHANGED <<hist_data, libVars, mainVars>>

Next == CallNone \/ CallEmpty \/ CallSeries \/ Analyze

Spec == Init /\ [][Next]_vars

TypeOK ==
    /\ pc \in {"call", "body", "return"}
    /\ hist_data.isNone \in BOOLEAN
    /\ result.trend \in {"", "Neutral", "Bullish", "Bearish"}

---------------------------------------------------------------------------
(* Properties of analyze_reit *)

Returned == pc = "return"
Closes == hist_data.Close
NCloses == IF hist_data.isNone THEN 0 ELSE Len(hist_data.Close)
Texts == {result.insights[i].text : i \in 1..Len(result.insights)}

StrictlyIncreasing(s) == \A i \in 2..Len(s) : s[i] > s[i - 1]
StrictlyDecreasing(s) == \A i \in 2..Len(s) : s[i] < s[i - 1]
\* no close of the last 14 day-over-day moves is below the one before it
NoDownDay(s) == \A i \in (Len(s) - 13)..Len(s) : i >= 2 => s[i] >= s[i - 1]

\* C1: analyze_reit called with None or with an empty price series returns
\* exactly {change_pct: 0, rsi: 50, trend: 'Neutral',
\* insights: ['No data available']}.
C1_DegenerateResult ==
    (Returned /\ NCloses = 0) =>
        /\ result.change_pct = [nan |-> FALSE, num |-> 0, den |-> 1]
        /\ result.rsi = [nan |-> FALSE, num |-> 50, den |-> 1]
        /\ result.trend = "Neutral"
        /\ Len(result.insights) = 1
        /\ result.insights[1].text = "No data available"

C1_Witness ==
    Returned /\ hist_data.isNone /\ result.trend = "Neutral"
             /\ Texts = {"No data available"}

\* C2: for every non-empty series of 1 to 14 closes the rsi returned by
\* analyze_reit is the neutral default 50.
C2_ShortSeriesRsiIs50 ==
    (Returned /\ NCloses >= 1 /\ NCloses <= 14) =>
        (~result.rsi.nan /\ result.rsi.num = 50 * result.rsi.den)

\* C3: for every series of at least 15 closes with no down day in the last
\* 14 moves (mean loss zero) the rsi returned by analyze_reit is 50.
C3_ZeroLossRsiIs50 ==
    (Returned /\ NCloses >= 15 /\ NoDownDay(Closes)) =>
        (~result.rsi.nan /\ result.rsi.num = 50 * result.rsi.den)

\* C4: for every strictly increasing series of at least 50 closes the rsi
\* returned by analyze_reit is strictly less than 100.
C4_IncreasingRsiBelow100 ==
    (Returned /\ NCloses >= 50 /\ StrictlyIncreasing(Closes)) =>
        (~result.rsi.nan /\ result.rsi.num < 100 * result.rsi.den)

RECURSIVE TailSum(_, _)
\* sum of the last k closes of s
TailSum(s, k) == IF k = 0 THEN 0 ELSE s[Len(s)] + TailSum(SubSeq(s, 1, Len(s) - 1), k - 1)

Abs(x) == IF x < 0 THEN -x ELSE x
LastClose == Closes[Len(Closes)]

\* the latest close against the two SMA values analyze_reit compares it
\* with: the mean of the last 20 (50) closes, or the latest close itself
\* when the series is shorter than the window
Above20 == NCloses >= 20 /\ 20 * LastClose > TailSum(Closes, 20)
Below20 == NCloses >= 20 /\ 20 * LastClose < TailSum(Closes, 20)
Above50 == NCloses >= 50 /\ 50 * LastClose > TailSum(Closes, 50)
Below50 == NCloses >= 50 /\ 50 * LastClose < TailSum(Closes, 50)

\* C5: for every series of at least 50 closes analyze_reit returns trend
\* 'Bullish' when each close is above the previous one and 'Bearish' when
\* each close is below the previous one.
C5_MonotonicTrend ==
    (Returned /\ NCloses >= 50) =>
        /\ StrictlyIncreasing(Closes) => result.trend = "Bullish"
        /\ StrictlyDecreasing(Closes) => result.trend = "Bearish"

C5_Witness ==
    Returned /\ NCloses >= 50 /\ StrictlyDecreasing(Closes)
             /\ result.trend = "Bearish"

\* C6: for every non-empty series the trend is 'Bullish' iff the latest
\* close is strictly above both SMA values, 'Bearish' iff it is strictly
\* below both, and 'Neutral' in every other case.
C6_TrendClassification ==
    (Returned /\ NCloses >= 1) =>
        /\ result.trend = "Bullish" <=> (Above20 /\ Above50)
        /\ result.trend = "Bearish" <=> (Below20 /\ Below50)
        /\ result.trend = "Neutral" <=>
              (~(Above20 /\ Above50) /\ ~(Below20 /\ Below50))

\* the latest close lies strictly between the two SMAs
C6_Witness ==
    Returned /\ NCloses >= 50 /\ Above20 /\ Below50
             /\ result.trend = "Neutral"

\* C7: every non-empty series with fewer than 50 closes yields trend
\* 'Neutral' (the missing SMA is replaced by the current close), whatever
\* the prices are.
C7_ShortSeriesNeutral ==
    (Returned /\ NCloses >= 1 /\ NCloses < 50) => result.trend = "Neutral"

\* the 20-day SMA exists and lies below the latest close, the 50-day does not
C7_Witness ==
    Returned /\ NCloses >= 20 /\ NCloses < 50 /\ Above20
             /\ result.trend = "Neutral"

\* change_pct is x rounded to 2 decimals, x = (c - w) / w * 100
IsChangePct(cp, c, w) ==
    ~cp.nan /\ cp.den = 100 /\ 2 * Abs(10000 * (c - w) - cp.num * w) <= w

\* C8 (as stated): change_pct is 0 for 1 to 4 closes; from 5 closes on it is
\* the rounded percentage change against the close five periods before the
\* latest; closes [100,100,100,100,110] yield 10.0.
C8_ChangeFivePeriodsBack ==
    (Returned /\ NCloses >= 1) =>
        /\ NCloses <= 4 => (~result.change_pct.nan /\ result.change_pct.num = 0)
        /\ NCloses >= 6 =>
              IsChangePct(result.change_pct, LastClose, Closes[NCloses - 5])
        /\ Closes = <<100, 100, 100, 100, 110>> =>
              (~result.change_pct.nan
                 /\ result.change_pct.num = 10 * result.change_pct.den)

\* C8 (amended): change_pct is 0 for 1 to 4 closes; from 5 closes on it is
\* the rounded percentage change against the fifth-from-last close
\* (iloc[-5], four periods before the latest); closes [100,100,100,100,110]
\* yield 10.0.
C8_ChangeFifthFromLast ==
    (Returned /\ NCloses >= 1) =>
        /\ NCloses <= 4 => (~result.change_pct.nan /\ result.change_pct.num = 0)
        /\ NCloses >= 5 =>
              IsChangePct(result.change_pct, LastClose, Closes[NCloses - 4])
        /\ Closes = <<100, 100, 100, 100, 110>> =>
              (~result.change_pct.nan
                 /\ result.change_pct.num = 10 * result.change_pct.den)

C8_Witness ==
    Returned /\ ~hist_data.isNone /\ Closes = <<100, 100, 100, 100, 110>>
             /\ result.change_pct = [nan |-> FALSE, num |-> 1000, den |-> 100]

RsiTexts ==
    {"Overbought (RSI > 70) - Overvaluation Risk",
     "Oversold (RSI < 30) - Potential Value",
     "Trading within normal range"}
MomentumTexts ==
    {"Strong momentum (+{}% monthly)", "Weak momentum ({}% monthly)"}

\* C9: for every non-empty series the insights list is one RSI insight
\* (Overbought iff rsi > 70, Oversold iff rsi < 30, otherwise normal range),
\* then at most one trend insight (Uptrend iff Bullish, Downtrend iff
\* Bearish, none iff Neutral), then at most one momentum insight.
C9_InsightOrder ==
    (Returned /\ NCloses >= 1) =>
        LET ins == result.insights
            rsi == result.rsi
            t == IF result.trend = "Neutral" THEN 0 ELSE 1
        IN  /\ Len(ins) >= 1
            /\ ins[1].text \in RsiTexts
            /\ ins[1].text = "Overbought (RSI > 70) - Overvaluation Risk"
                  <=> (~rsi.nan /\ rsi.num > 70 * rsi.den)
            /\ ins[1].text = "Oversold (RSI < 30) - Potential Value"
                  <=> (~rsi.nan /\ rsi.num < 30 * rsi.den)
            /\ Len(ins) \in {1 + t, 2 + t}
            /\ result.trend = "Bullish" =>
                  ins[2].text = "Strong Uptrend (Above 20 & 50 SMA)"
            /\ result.trend = "Bearish" =>
                  ins[2].text = "Downtrend (Below 20 & 50 SMA)"
            /\ Len(ins) = 2 + t => ins[2 + t].text \in MomentumTexts

C9_Witness ==
    Returned /\ NCloses >= 1 /\ Len(result.insights) = 3
             /\ result.insights[1].text = "Oversold (RSI < 30) - Potential Value"
             /\ result.insights[2].text = "Downtrend (Below 20 & 50 SMA)"
             /\ result.insights[3].text = "Weak momentum ({}% monthly)"

\* C10 (as stated): a momentum insight is appended only from 20 closes on;
\* with monthly_change taken against the close twenty periods before the
\* latest, the positive insight appears iff monthly_change > 5 and the
\* negative one iff monthly_change < -5.
C10_MomentumTwentyPeriodsBack ==
    (Returned /\ NCloses >= 1) =>
        LET pos == "Strong momentum (+{}% monthly)" \in Texts
            neg == "Weak momentum ({}% monthly)" \in Texts
        IN  /\ NCloses < 20 => (~pos /\ ~neg)
            /\ NCloses >= 21 =>
                  LET w == Closes[NCloses - 20]
                  IN  /\ pos <=> 100 * (LastClose - w) > 5 * w
                      /\ neg <=> 100 * (LastClose - w) < -5 * w

\* C10 (amended): a momentum insight is appended only from 20 closes on;
\* with monthly_change taken against the twentieth-from-last close
\* (iloc[-20], nineteen periods before the latest), the positive insight
\* appears iff monthly_change > 5, the negative one iff monthly_change < -5,
\* and none when -5 <= monthly_change <= 5.
C10_MomentumTwentiethFromLast ==
    (Returned /\ NCloses >= 1) =>
        LET pos == "Strong momentum (+{}% monthly)" \in Texts
            neg == "Weak momentum ({}% monthly)" \in Texts
        IN  /\ NCloses < 20 => (~pos /\ ~neg)
            /\ NCloses >= 20 =>
                  LET w == Closes[NCloses - 19]
                  IN  /\ pos <=> 100 * (LastClose - w) > 5 * w
                      /\ neg <=> 100 * (LastClose - w) < -5 * w

\* exactly 20 closes, the first of them more than 5% below the latest
C10_Witness ==
    Returned /\ NCloses = 20 /\ 100 * (LastClose - Closes[1]) > 5 * Closes[1]
             /\ "Strong momentum (+{}% monthly)" \in Texts

---------------------------------------------------------------------------
(* src/data_fetcher.py: names and fundamentals                              *)
(*                                                                         *)
(* A name is a sequence of whitespace-separated tokens; a normalized key   *)
(* is the sequence of its words (the joined string has one space between   *)
(* two words, so two keys are equal iff their word sequences are).  A dict *)
(* is the sequence of its [key, data] entries in insertion order.          *)

\* str.lower() of one token
Lower(t) ==
    CASE t = "CapitaLand" -> "capitaland"
      [] t = "Integrated" -> "integrated"
      [] t = "Commercial" -> "commercial"
      [] t = "Mapletree" -> "mapletree"
      [] t = "Logistics" -> "logistics"
      [] t = "Frasers" -> "frasers"
      [] t = "Keppel" -> "keppel"
      [] t = "DC" -> "dc"
      [] t = "CDL" -> "cdl"
      [] t = "Hospitality" -> "hospitality"
      [] t = "Trusts" -> "trusts"
      [] t = "Trust" -> "trust"
      [] t = "Trust." -> "trust."
      [] t = "REIT" -> "reit"
      [] OTHER -> t

\* re.sub(r'[^\w\s]', '', t) of one lowercased token
Bare(t) ==
    CASE t = "&" -> ""
      [] t = "trust." -> "trust"
      [] OTHER -> t

Range(f) == {f[i] : i \in DOMAIN f}
NonEmptyWord(w) == w # ""

normalize_reit_name(name) ==
    LET lowered == [i \in 1..Len(name) |-> Lower(name[i])]
        \* re.sub(r'\s*(reit|trust)$', '', name)
        cut == IF Len(lowered) > 0 /\ lowered[Len(lowered)] \in {"reit", "trust"}
               THEN SubSeq(lowered, 1, Len(lowered) - 1)
               ELSE lowered
        bare == [i \in 1..Len(cut) |-> Bare(cut[i])]
    IN  \* ' '.join(name.split())
        SelectSeq(bare, NonEmptyWord)

\* a cell of the scraped table: a str or a float, holding a number, NaN,
\* nothing, or text that float() rejects
Cell(type, kind, val) == [type |-> type, kind |-> kind, val |-> val]

safe_float(value, default) ==
    IF value.kind = "num" THEN value.val ELSE default

None == [isNone |-> TRUE, val |-> <<>>]
Some(x) == [isNone |-> FALSE, val |-> x]

Overlap(name_key, key) == Cardinality(Range(name_key) \cap Range(key))

RECURSIVE BestMatch(_, _, _, _, _)
\* the loop of match_fundamental_data from entry i on
BestMatch(name_key, data, i, best_score, best_match) ==
    IF i > Len(data)
    THEN [best_score |-> best_score, best_match |-> best_match]
    ELSE LET overlap == Overlap(name_key, data[i].key)
         IN  IF overlap > best_score
             THEN BestMatch(name_key, data, i + 1, overlap,
                            Some(data[i].data))
             ELSE BestMatch(name_key, data, i + 1, best_score,
                            best_match)

HasKey(d, k) == \E i \in 1..Len(d) : d[i].key = k
Lookup(d, k) == d[CHOOSE i \in 1..Len(d) : d[i].key = k].data

\* mutant: a single shared word is accepted as a match
match_fundamental_data_OneWord(reit_name, data) ==
    IF Len(data) = 0 THEN None
    ELSE LET name_key == normalize_reit_name(reit_name)
             best == BestMatch(name_key, data, 1, 0, None)
         IN  IF HasKey(data, name_key) THEN Some(Lookup(data, name_key))
             ELSE IF best.best_score >= 1 THEN best.best_match
             ELSE None

match_fundamental_data(reit_name, data) ==
    IF Len(data) = 0 THEN None
    ELSE LET name_key == normalize_reit_name(reit_name)
             best == BestMatch(name_key, data, 1, 0, None)
         IN  IF HasKey(data, name_key) THEN Some(Lookup(data, name_key))
             ELSE IF best.best_score >= 2 THEN best.best_match
             ELSE None

Entry(key, data) == [key |-> key, data |-> data]

Fundamentals(full_name, dividend_yield, price_to_nav, nav, dpu, gearing_ratio, property_yield) ==
    [full_name |-> full_name, dividend_yield |-> dividend_yield,
     price_to_nav |-> price_to_nav, nav |-> nav, dpu |-> dpu,
     gearing_ratio |-> gearing_ratio, property_yield |-> property_yield]

get_fallback_fundamental_data ==
    <<
      Entry(<<"capitaland", "integrated", "commercial">>,
            Fundamentals(<<"CapitaLand", "Integrated", "Commercial", "Trust">>,
                F(459, 100), F(112, 100), F(2120, 1000), F(1088, 10000), F(385, 10), F(465, 100))),
      Entry(<<"capitaland", "ascendas">>,
            Fundamentals(<<"CapitaLand", "Ascendas", "REIT">>,
                F(526, 100), F(127, 100), F(2270, 1000), F(1521, 10000), F(377, 10), F(610, 100))),
      Entry(<<"mapletree", "logistics">>,
            Fundamentals(<<"Mapletree", "Logistics", "Trust">>,
                F(553, 100), F(104, 100), F(1310, 1000), F(752, 10000), F(444, 10), F(470, 100))),
      Entry(<<"mapletree", "industrial">>,
            Fundamentals(<<"Mapletree", "Industrial", "Trust">>,
                F(643, 100), F(123, 100), F(1710, 1000), F(1357, 10000), F(406, 10), F(653, 100))),
      Entry(<<"mapletree", "pan", "asia", "commercial">>,
            Fundamentals(<<"Mapletree", "Pan", "Asia", "Commercial", "Trust">>,
                F(542, 100), F(83, 100), F(1780, 1000), F(802, 10000), F(388, 10), F(437, 100))),
      Entry(<<"frasers", "logistics", "commercial">>,
            Fundamentals(<<"Frasers", "Logistics", "&", "Commercial", "Trust">>,
                F(578, 100), F(94, 100), F(1100, 1000), F(595, 10000), F(357, 10), F(486, 100))),
      Entry(<<"frasers", "centrepoint">>,
            Fundamentals(<<"Frasers", "Centrepoint", "Trust">>,
                F(534, 100), F(102, 100), F(2230, 1000), F(1211, 10000), F(396, 10), F(455, 100))),
      Entry(<<"keppel", "dc">>,
            Fundamentals(<<"Keppel", "DC", "REIT">>,
                F(428, 100), F(144, 100), F(1530, 1000), F(945, 10000), F(315, 10), F(531, 100))),
      Entry(<<"suntec">>,
            Fundamentals(<<"Suntec", "REIT">>,
                F(436, 100), F(69, 100), F(2046, 1000), F(619, 10000), F(424, 10), F(367, 100))),
      Entry(<<"parkway", "life">>,
            Fundamentals(<<"Parkway", "Life", "REIT">>,
                F(360, 100), F(172, 100), F(2410, 1000), F(1492, 10000), F(348, 10), F(554, 100)))
    >>

\* fundamental_data[key] = data: a new key goes last, a known key keeps
\* its place
Put(d, key, data) ==
    IF HasKey(d, key)
    THEN [i \in 1..Len(d) |-> IF d[i].key = key THEN Entry(key, data) ELSE d[i]]
    ELSE Append(d, Entry(key, data))

\* one pass of the row loop: "skip" (no name), "raise" (an exception that
\* the inner except logs) or "ok" with the entry to store.  The yield cell
\* is the only one .replace() is called on without str(): a float there
\* raises AttributeError
ParseRow(row) ==
    IF row.Name.kind # "num" THEN [outcome |-> "skip", key |-> <<>>, data |-> <<>>]
    ELSE IF row.DistributionYield.type # "str"
    THEN [outcome |-> "raise", key |-> <<>>, data |-> <<>>]
    ELSE [outcome |-> "ok",
          key |-> normalize_reit_name(row.Name.val),
          data |-> Fundamentals(row.Name.val,
                      safe_float(row.DistributionYield, F(0, 1)),
                      safe_float(row.PriceToBook, F(0, 1)),
                      safe_float(row.NAV, F(0, 1)),
                      safe_float(row.DPU, F(0, 1)),
                      safe_float(row.GearingRatio, F(0, 1)),
                      safe_float(row.PropertyYield, F(0, 1)))]

RECURSIVE ParseRows(_, _, _)
\* mutant: a row that raises ends the loop, the rows parsed so far are lost
ParseRows_AbortOnError(rows, i, acc) ==
    IF i > Len(rows) THEN acc
    ELSE LET r == ParseRow(rows[i])
         IN  IF r.outcome = "raise" THEN <<>>
             ELSE IF r.outcome = "ok"
             THEN ParseRows(rows, i + 1, Put(acc, r.key, r.data))
             ELSE ParseRows(rows, i + 1, acc)

\* for _, row in df.iterrows(), from row i on
ParseRows(rows, i, acc) ==
    IF i > Len(rows) THEN acc
    ELSE LET r == ParseRow(rows[i])
         IN  IF r.outcome = "ok"
             THEN ParseRows(rows, i + 1, Put(acc, r.key, r.data))
             ELSE ParseRows(rows, i + 1, acc)

\* the try block of fetch_fundamental_data.  response.kind: "http_error"
\* (requests.get or raise_for_status raises), "no_tables" (pd.read_html
\* raises ValueError) or "tables" (response.tables is what read_html returns)
FetchBody(response) ==
    IF response.kind # "tables" THEN [exc |-> TRUE, value |-> <<>>]
    ELSE IF Len(response.tables) = 0
    THEN [exc |-> FALSE, value |-> get_fallback_fundamental_data]
    ELSE LET parsed == ParseRows(response.tables[1], 1, <<>>)
         IN  IF Len(parsed) = 0
             THEN [exc |-> FALSE, value |-> get_fallback_fundamental_data]
             ELSE [exc |-> FALSE, value |-> parsed]

\* the except clause turns every exception of the try block into the
\* fallback data
fetch_fundamental_data(response) ==
    LET body == FetchBody(response)
    IN  IF body.exc
        THEN [raised |-> FALSE, value |-> get_fallback_fundamental_data]
        ELSE [raised |-> FALSE, value |-> body.value]

\* yfinance's answer to stock.history(): "exception", "empty" or "series"
fetch_reit_data(answer) ==
    IF answer.kind = "series"
    THEN [isNone |-> FALSE, Close |-> answer.Close]
    ELSE [isNone |-> TRUE, Close |-> <<>>]

SECTOR_MAPPING(segment) ==
    CASE segment = "Commercial/Retail" -> "Commercial"
      [] segment = "Industrial" -> "Industrial"
      [] segment = "Logistics" -> "Logistics"
      [] segment = "Industrial DC" -> "Industrial"
      [] segment = "Logistics/Commercial" -> "Logistics"
      [] segment = "Retail" -> "Retail"
      [] segment = "Data Centre" -> "Data Centre"
      [] segment = "Healthcare" -> "Healthcare"
      [] OTHER -> "none"

KnownSegments ==
    {"Commercial/Retail", "Industrial", "Logistics", "Industrial DC",
     "Logistics/Commercial", "Retail", "Data Centre", "Healthcare"}

get_sector_category(segment) ==
    IF segment \in KnownSegments THEN SECTOR_MAPPING(segment) ELSE "Other"

\* Python truth value of an optional float: None and 0.0 are false
Truthy(x) == ~x.isNone /\ (x.val.nan \/ x.val.num # 0)

---------------------------------------------------------------------------
(* src/main.py: the body of the loop over reits_config *)

\* the reit_data dict of lines 62-78; current_price is what
\* get_current_price returned
ReitData(reit, hist, current_price, analysis, fundamentals) ==
    [ticker |-> reit.ticker,
     name |-> reit.name,
     segment |-> reit.segment,
     sector |-> get_sector_category(reit.segment),
     price |-> Round(IF Eq(current_price, F(0, 1))
                     THEN F(ILoc(hist.Close, 1), 1) ELSE current_price, 2),
     change_pct |-> analysis.change_pct,
     rsi |-> analysis.rsi,
     trend |-> analysis.trend,
     insights |-> analysis.insights,
     dividend_yield |-> IF fundamentals.isNone THEN None
                        ELSE Some(fundamentals.val.dividend_yield),
     price_to_nav |-> IF fundamentals.isNone THEN None
                      ELSE Some(fundamentals.val.price_to_nav),
     nav |-> IF fundamentals.isNone THEN None ELSE Some(fundamentals.val.nav),
     gearing_ratio |-> IF fundamentals.isNone THEN None
                       ELSE Some(fundamentals.val.gearing_ratio),
     dpu |-> IF fundamentals.isNone THEN None ELSE Some(fundamentals.val.dpu)]

YieldInsight(reit_data) ==
    IF Truthy(reit_data.dividend_yield)
       /\ Gt(reit_data.dividend_yield.val, F(7, 1))
    THEN <<Insight("High yield ({}%)", reit_data.dividend_yield.val)>>
    ELSE <<>>

\* mutant: the discount threshold is 1.3 instead of 0.8
NavInsight_Premium(reit_data) ==
    IF Truthy(reit_data.price_to_nav)
    THEN IF Lt(reit_data.price_to_nav.val, F(13, 10))
         THEN <<Insight("Deep discount to NAV ({}x)", reit_data.price_to_nav.val)>>
         ELSE IF Gt(reit_data.price_to_nav.val, F(13, 10))
         THEN <<Insight("Premium to NAV ({}x)", reit_data.price_to_nav.val)>>
         ELSE <<>>
    ELSE <<>>

NavInsight(reit_data) ==
    IF Truthy(reit_data.price_to_nav)
    THEN IF Lt(reit_data.price_to_nav.val, F(8, 10))
         THEN <<Insight("Deep discount to NAV ({}x)", reit_data.price_to_nav.val)>>
         ELSE IF Gt(reit_data.price_to_nav.val, F(13, 10))
         THEN <<Insight("Premium to NAV ({}x)", reit_data.price_to_nav.val)>>
         ELSE <<>>
    ELSE <<>>

GearingInsight(reit_data) ==
    IF Truthy(reit_data.gearing_ratio)
    THEN IF Gt(reit_data.gearing_ratio.val, F(45, 1))
         THEN <<Insight("High gearing ({}%)", reit_data.gearing_ratio.val)>>
         ELSE IF Lt(reit_data.gearing_ratio.val, F(35, 1))
         THEN <<Insight("Conservative gearing ({}%)", reit_data.gearing_ratio.val)>>
         ELSE <<>>
    ELSE <<>>

\* lines 80-98: reit_data['insights'] after the fundamental insights
AddFundamentalInsights(reit_data, fundamentals) ==
    IF fundamentals.isNone THEN reit_data
    ELSE [reit_data EXCEPT !.insights =
             @ \o YieldInsight(reit_data) \o NavInsight(reit_data)
               \o GearingInsight(reit_data)]

---------------------------------------------------------------------------
(* Averages of get_sector_summary and of main *)

FAdd(x, y) == F(x.num * y.den + y.num * x.den, x.den * y.den)

RECURSIVE FSum(_)
FSum(xs) == IF Len(xs) = 0 THEN F(0, 1) ELSE FAdd(xs[1], FSum(Tail(xs)))

RECURSIVE TruthyValues(_, _)
\* [r[field] for r in reits_data if r.get(field)]
TruthyValues(reits_data, field) ==
    IF Len(reits_data) = 0 THEN <<>>
    ELSE LET x == reits_data[1][field]
             rest == TruthyValues(Tail(reits_data), field)
         IN  IF Truthy(x) THEN <<x.val>> \o rest ELSE rest

\* round(sum(xs) / len(xs), ndigits) if xs else 0
Average(xs, ndigits) ==
    IF Len(xs) = 0 THEN F(0, 1)
    ELSE LET total == FSum(xs)
         IN  Round(F(total.num, total.den * Len(xs)), ndigits)

RECURSIVE NonNullValues(_, _)
NonNullValues(reits_data, field) ==
    IF Len(reits_data) = 0 THEN <<>>
    ELSE LET x == reits_data[1][field]
             rest == NonNullValues(Tail(reits_data), field)
         IN  IF ~x.isNone THEN <<x.val>> \o rest ELSE rest

\* mutant: every record with a value counts, a 0.0 included
Averages_NonNull(reits_data) ==
    [avg_yield |-> Average(NonNullValues(reits_data, "dividend_yield"), 2),
     avg_pnav |-> Average(NonNullValues(reits_data, "price_to_nav"), 2),
     avg_gearing |-> Average(NonNullValues(reits_data, "gearing_ratio"), 1)]

\* the three averages, written once in main (112-120) and once per sector
\* in get_sector_summary (283-297)
Averages(reits_data) ==
    [avg_yield |-> Average(TruthyValues(reits_data, "dividend_yield"), 2),
     avg_pnav |-> Average(TruthyValues(reits_data, "price_to_nav"), 2),
     avg_gearing |-> Average(TruthyValues(reits_data, "gearing_ratio"), 1)]

RECURSIVE SectorsOf(_)
\* the keys of sector_data in insertion order
SectorsOf(reits_data) ==
    IF Len(reits_data) = 0 THEN <<>>
    ELSE LET before == SectorsOf(SubSeq(reits_data, 1, Len(reits_data) - 1))
             sector == reits_data[Len(reits_data)].sector
         IN  IF sector \in Range(before) THEN before ELSE Append(before, sector)

InSector(reits_data, sector) ==
    LET Member(r) == r.sector = sector
    IN  SelectSeq(reits_data, Member)

\* mutant: only the records with a dividend yield are counted
get_sector_summary_CountYields(reits_data) ==
    LET sectors == SectorsOf(reits_data)
    IN  [i \in 1..Len(sectors) |->
            LET members == InSector(reits_data, sectors[i])
                avg == Averages(members)
            IN  Entry(sectors[i],
                      [count |-> Len(TruthyValues(members, "dividend_yield")),
                       avg_yield |-> avg.avg_yield,
                       avg_pnav |-> avg.avg_pnav,
                       avg_gearing |-> avg.avg_gearing])]

get_sector_summary(reits_data) ==
    LET sectors == SectorsOf(reits_data)
    IN  [i \in 1..Len(sectors) |->
            LET members == InSector(reits_data, sectors[i])
                avg == Averages(members)
            IN  Entry(sectors[i],
                      [count |-> Len(members),
                       avg_yield |-> avg.avg_yield,
                       avg_pnav |-> avg.avg_pnav,
                       avg_gearing |-> avg.avg_gearing])]

---------------------------------------------------------------------------
(* Inputs of main(): the config file, the scraped page, yfinance *)

\* most instruments in reits_config.json
MaxReits == 3

Reit(ticker, name, segment) ==
    [ticker |-> ticker, name |-> name, segment |-> segment]

CICT == Reit("C38U.SI", <<"CapitaLand", "Integrated", "Commercial", "Trust">>,
             "Commercial/Retail")
ReitPool ==
    {CICT,
     Reit("M44U.SI", <<"Mapletree", "Logistics", "Trust">>, "Logistics"),
     Reit("BUOU.SI", <<"Frasers", "Logistics", "Trust">>, "Logistics/Commercial"),
     Reit("J85.SI", <<"CDL", "Hospitality", "Trusts">>, "Hospitality")}

RECURSIVE InjectiveSeqs(_, _)
\* the sequences of at most n distinct elements of S
InjectiveSeqs(S, n) ==
    IF n = 0 THEN {<<>>}
    ELSE LET shorter == InjectiveSeqs(S, n - 1)
         IN  shorter \cup
             UNION {{Append(q, x) : x \in S \ Range(q)} :
                       q \in {t \in shorter : Len(t) = n - 1}}

Configs == InjectiveSeqs(ReitPool, MaxReits)

Str(kind, val) == Cell("str", kind, val)
Flt(kind, val) == Cell("float", kind, val)

Row(name, dy, pb, nav, dpu, gearing, py) ==
    [Name |-> name, DistributionYield |-> dy, PriceToBook |-> pb, NAV |-> nav,
     DPU |-> dpu, GearingRatio |-> gearing, PropertyYield |-> py]

\* a well-formed row of CapitaLand Integrated Commercial Trust
RowCICT(dy, pb, gearing) ==
    Row(Str("num", CICT.name), Str("num", dy), Flt("num", pb),
        Flt("num", F(212, 100)), Flt("num", F(1088, 10000)),
        Str("num", gearing), Str("num", F(465, 100)))

\* yield 'N/A', no price to book, gearing '0%': every field parses to 0.0
RowMapletree ==
    Row(Str("num", <<"Mapletree", "Logistics", "Trust">>), Str("text", F(0, 1)),
        Flt("nan", NaN), Flt("num", F(153, 100)), Flt("nan", NaN),
        Str("num", F(0, 1)), Str("empty", F(0, 1)))

RowFrasers ==
    Row(Str("num", <<"Frasers", "Logistics", "&", "Commercial", "Trust">>),
        Str("num", F(578, 100)), Flt("num", F(94, 100)), Flt("num", F(110, 100)),
        Flt("num", F(595, 10000)), Str("num", F(357, 10)), Str("num", F(486, 100)))

\* the yield cell is a float: .replace() raises and the row is dropped
RowBadYield ==
    Row(Str("num", <<"Keppel", "DC", "REIT">>), Flt("nan", NaN),
        Flt("num", F(104, 100)), Flt("num", F(131, 100)),
        Flt("num", F(752, 10000)), Str("num", F(444, 10)), Str("num", F(47, 10)))

\* the name cell is NaN
RowNoName ==
    Row(Flt("nan", <<>>), Str("num", F(5, 1)), Flt("num", F(1, 1)),
        Flt("num", F(1, 1)), Flt("num", F(1, 10)), Str("num", F(40, 1)),
        Str("num", F(5, 1)))

Yields == {F(0, 1), F(7, 1), F(8, 1)}
PNavs == {F(0, 1), F(7, 10), F(8, 10), F(13, 10), F(14, 10)}
Gearings == {F(0, 1), F(34, 1), F(35, 1), F(45, 1), F(50, 1)}

Page(rows) == [kind |-> "tables", tables |-> <<rows>>]
HttpError == [kind |-> "http_error", tables |-> <<>>]
NoTables == [kind |-> "no_tables", tables |-> <<>>]

\* what the request of fetch_fundamental_data can meet in a run of main: a
\* one-instrument config is run against every combination of yield, P/NAV
\* and gearing, a longer one against a failed request and one page
ResponsesFor(config) ==
    IF config = <<CICT>>
    THEN {Page(<<RowCICT(dy, pb, g)>>) : dy \in Yields, pb \in PNavs, g \in Gearings}
    ELSE {HttpError,
          Page(<<RowCICT(F(8, 1), F(7, 10), F(50, 1)), RowBadYield, RowMapletree,
                 RowFrasers>>)}

ShortUp == <<100, 100, 100, 100, 110>>
LongUp == Ramp(100, 1, 50, 0, 0)
HistAnswers ==
    {[kind |-> "exception", Close |-> <<>>], [kind |-> "empty", Close |-> <<>>],
     [kind |-> "series", Close |-> ShortUp], [kind |-> "series", Close |-> LongUp]}

\* get_current_price: 0.0 when both lookups fail
Quotes == {F(0, 1), F(1234, 1000)}
\* the lookups fail for some instrument with a short history only
QuotesFor(hist) ==
    IF Len(hist.Close) < SMA_LONG THEN Quotes ELSE {F(1234, 1000)}

---------------------------------------------------------------------------
(* src/main.py: main() step by step.  trace lists the effects of the run  *)
(* in the order they happen.                                               *)

Event(ev, i) == [ev |-> ev, i |-> i]

InitMain ==
    /\ pc = "idle" /\ result = NoResult
    /\ hist_data = [isNone |-> TRUE, Close |-> <<>>]
    /\ LibIdle
    /\ mpc = "start"
    /\ reits_config \in Configs
    /\ idx = 0
    /\ fundamental_data = <<>> /\ all_reits_data = <<>>
    /\ sector_summary = <<>> /\ portfolio_metrics = <<>>
    /\ trace = <<>> /\ main_ret = <<>>

\* lines 29-31: one call of fetch_fundamental_data
FetchFundamentals ==
    /\ mpc = "start"
    /\ \E response \in ResponsesFor(reits_config) :
          fundamental_data' = fetch_fundamental_data(response).value
    /\ trace' = Append(trace, Event("fetch_fundamentals", 0))
    /\ mpc' = "loop"
    /\ UNCHANGED <<hist_data, analyzerVars, libVars, reits_config, idx,
                   all_reits_data, sector_summary, portfolio_metrics, main_ret>>

\* lines 36-44: the next instrument of the config, its price history
FetchHistory ==
    /\ mpc = "loop" /\ idx < Len(reits_config)
    /\ idx' = idx + 1
    /\ \E answer \in HistAnswers : hist_data' = fetch_reit_data(answer)
    /\ trace' = Append(trace, Event("fetch_reit", idx + 1))
    /\ mpc' = "fetched"
    /\ UNCHANGED <<analyzerVars, libVars, reits_config, fundamental_data,
                   all_reits_data, sector_summary, portfolio_metrics, main_ret>>

NoHistory == hist_data.isNone \/ Len(hist_data.Close) = 0

\* lines 46-48: continue
SkipReit ==
    /\ mpc = "fetched" /\ NoHistory
    /\ trace' = Append(trace, Event("skip", idx))
    /\ mpc' = "loop"
    /\ UNCHANGED <<hist_data, analyzerVars, libVars, reits_config, idx,
                   fundamental_data, all_reits_data, sector_summary,
                   portfolio_metrics, main_ret>>

\* mutant: the record is put in front of the list
ProcessReit_Prepend ==
    /\ mpc = "fetched" /\ ~NoHistory
    /\ \E current_price \in QuotesFor(hist_data) :
          LET reit == reits_config[idx]
              analysis == analyze_reit(hist_data)
              fundamentals == match_fundamental_data(reit.name, fundamental_data)
              reit_data == ReitData(reit, hist_data, current_price, analysis,
                                    fundamentals)
          IN  all_reits_data' =
                 <<AddFundamentalInsights(reit_data, fundamentals)>>
                 \o all_reits_data
    /\ trace' = Append(trace, Event("record", idx))
    /\ mpc' = "loop"
    /\ UNCHANGED <<hist_data, analyzerVars, libVars, reits_config, idx,
                   fundamental_data, sector_summary, portfolio_metrics, main_ret>>

\* lines 50-100: price, analysis, fundamentals, insights, append
ProcessReit ==
    /\ mpc = "fetched" /\ ~NoHistory
    /\ \E current_price \in QuotesFor(hist_data) :
          LET reit == reits_config[idx]
              analysis == analyze_reit(hist_data)
              fundamentals == match_fundamental_data(reit.name, fundamental_data)
              reit_data == ReitData(reit, hist_data, current_price, analysis,
                                    fundamentals)
          IN  all_reits_data' =
                 Append(all_reits_data,
                        AddFundamentalInsights(reit_data, fundamentals))
    /\ trace' = Append(trace, Event("record", idx))
    /\ mpc' = "loop"
    /\ UNCHANGED <<hist_data, analyzerVars, libVars, reits_config, idx,
                   fundamental_data, sector_summary, portfolio_metrics, main_ret>>

\* lines 103-105: nothing collected, main returns None
ReturnEmpty ==
    /\ mpc = "loop" /\ idx = Len(reits_config) /\ Len(all_reits_data) = 0
    /\ main_ret' = None
    /\ trace' = Append(trace, Event("return", 0))
    /\ mpc' = "done"
    /\ UNCHANGED <<hist_data, analyzerVars, libVars, reits_config, idx,
                   fundamental_data, all_reits_data, sector_summary,
                   portfolio_metrics>>

\* lines 107-120: sector summary and portfolio metrics
Aggregate ==
    /\ mpc = "loop" /\ idx = Len(reits_config) /\ Len(all_reits_data) > 0
    /\ sector_summary' = get_sector_summary(all_reits_data)
    /\ portfolio_metrics' = Averages(all_reits_data)
    /\ trace' = Append(trace, Event("aggregate", 0))
    /\ mpc' = "render"
    /\ UNCHANGED <<hist_data, analyzerVars, libVars, reits_config, idx,
                   fundamental_data, all_reits_data, main_ret>>

\* lines 124-129: generate_dashboard returns
Render ==
    /\ mpc = "render"
    /\ trace' = Append(trace, Event("render", 0))
    /\ mpc' = "notify"
    /\ UNCHANGED <<hist_data, analyzerVars, libVars, reits_config, idx,
                   fundamental_data, all_reits_data, sector_summary,
                   portfolio_metrics, main_ret>>

\* generate_dashboard raises (template or output file): main raises too
RenderRaises ==
    /\ mpc = "render"
    /\ trace' = Append(trace, Event("render_raised", 0))
    /\ mpc' = "raised"
    /\ UNCHANGED <<hist_data, analyzerVars, libVars, reits_config, idx,
                   fundamental_data, all_reits_data, sector_summary,
                   portfolio_metrics, main_ret>>

\* lines 134-136: send_update returns
Notify ==
    /\ mpc = "notify"
    /\ trace' = Append(trace, Event("notify", 0))
    /\ mpc' = "return"
    /\ UNCHANGED <<hist_data, analyzerVars, libVars, reits_config, idx,
                   fundamental_data, all_reits_data, sector_summary,
                   portfolio_metrics, main_ret>>

\* mutant: the exception of send_update leaves main
NotifyRaises_Propagates ==
    /\ mpc = "notify"
    /\ trace' = Append(trace, Event("notify_raised", 0))
    /\ mpc' = "raised"
    /\ UNCHANGED <<hist_data, analyzerVars, libVars, reits_config, idx,
                   fundamental_data, all_reits_data, sector_summary,
                   portfolio_metrics, main_ret>>

\* lines 137-138: send_update raises, the exception is logged
NotifyRaises ==
    /\ mpc = "notify"
    /\ trace' = Append(trace, Event("notify_raised", 0))
    /\ mpc' = "return"
    /\ UNCHANGED <<hist_data, analyzerVars, libVars, reits_config, idx,
                   fundamental_data, all_reits_data, sector_summary,
                   portfolio_metrics, main_ret>>

\* line 140
ReturnData ==
    /\ mpc = "return"
    /\ main_ret' = Some(all_reits_data)
    /\ trace' = Append(trace, Event("return", 0))
    /\ mpc' = "done"
    /\ UNCHANGED <<hist_data, analyzerVars, libVars, reits_config, idx,
                   fundamental_data, all_reits_data, sector_summary,
                   portfolio_metrics>>

NextMain ==
    \/ FetchFundamentals \/ FetchHistory \/ SkipReit \/ ProcessReit
    \/ ReturnEmpty \/ Aggregate \/ Render \/ RenderRaises
    \/ Notify \/ NotifyRaises \/ ReturnData

SpecMain == InitMain /\ [][NextMain]_vars

---------------------------------------------------------------------------
(* Properties of main() *)

TechnicalTexts ==
    RsiTexts \cup MomentumTexts
      \cup {"Strong Uptrend (Above 20 & 50 SMA)", "Downtrend (Below 20 & 50 SMA)"}
IsFundamentalText(t) == t \notin TechnicalTexts

TextsOf(ins) == [i \in 1..Len(ins) |-> ins[i].text]
FundamentalPart(r) == SelectSeq(TextsOf(r.insights), IsFundamentalText)
\* no technical insight comes after a fundamental one, and there is one
TechnicalFirst(r) ==
    /\ Len(r.insights) > 0 /\ r.insights[1].text \in TechnicalTexts
    /\ \A i, j \in 1..Len(r.insights) :
          (i < j /\ r.insights[j].text \in TechnicalTexts)
             => r.insights[i].text \in TechnicalTexts

\* x is present; with zeroCounts a value of 0 is present too
Has(x, zeroCounts) == ~x.isNone /\ (zeroCounts \/ x.val.num # 0)

\* the fundamental insights the rules of the claim give for record r
ExpectedFundamental(r, zeroCounts) ==
    LET dy == r.dividend_yield
        pn == r.price_to_nav
        ge == r.gearing_ratio
    IN  (IF Has(dy, zeroCounts) /\ dy.val.num > 7 * dy.val.den
         THEN <<"High yield ({}%)">> ELSE <<>>)
        \o (IF Has(pn, zeroCounts) /\ 10 * pn.val.num < 8 * pn.val.den
            THEN <<"Deep discount to NAV ({}x)">>
            ELSE IF Has(pn, zeroCounts) /\ 10 * pn.val.num > 13 * pn.val.den
            THEN <<"Premium to NAV ({}x)">> ELSE <<>>)
        \o (IF Has(ge, zeroCounts) /\ ge.val.num > 45 * ge.val.den
            THEN <<"High gearing ({}%)">>
            ELSE IF Has(ge, zeroCounts) /\ ge.val.num < 35 * ge.val.den
            THEN <<"Conservative gearing ({}%)">> ELSE <<>>)

\* a record whose instrument was matched to a fundamental record
Matched(r) == ~r.dividend_yield.isNone

\* C11 (as stated): for a matched instrument the fundamental insights come
\* after all technical ones, in the order yield, P/NAV, gearing: high-yield
\* iff dividend_yield is non-null and > 7; deep-discount iff price_to_nav is
\* non-null and < 0.8, else premium iff > 1.3; high-gearing iff gearing_ratio
\* is non-null and > 45, else conservative-gearing iff < 35.
C11_FundamentalInsightsNonNull ==
    \A k \in 1..Len(all_reits_data) :
        LET r == all_reits_data[k]
        IN  Matched(r) =>
               TechnicalFirst(r) /\ FundamentalPart(r) = ExpectedFundamental(r, TRUE)

\* C11 (amended): as above, but a P/NAV or gearing of exactly 0 gets no
\* insight: deep-discount iff price_to_nav is non-null, not 0 and < 0.8;
\* conservative-gearing iff gearing_ratio is non-null, not 0 and < 35.
C11_FundamentalInsightsNonZero ==
    \A k \in 1..Len(all_reits_data) :
        LET r == all_reits_data[k]
        IN  Matched(r) =>
               TechnicalFirst(r) /\ FundamentalPart(r) = ExpectedFundamental(r, FALSE)

\* yield 8, P/NAV 0.7, gearing 50
C11_Witness ==
    \E k \in 1..Len(all_reits_data) :
        LET r == all_reits_data[k]
        IN  /\ Matched(r)
            /\ r.dividend_yield.val = F(8, 1)
            /\ r.price_to_nav.val = F(7, 10)
            /\ r.gearing_ratio.val = F(50, 1)
            /\ Len(r.insights) >= 4
            /\ SubSeq(TextsOf(r.insights), Len(r.insights) - 2, Len(r.insights))
                  = <<"High yield ({}%)", "Deep discount to NAV ({}x)",
                      "High gearing ({}%)">>

\* main has aggregated: sector_summary and portfolio_metrics are set
Aggregated == mpc \in {"render", "notify", "return", "done", "raised"}
                 /\ Len(all_reits_data) > 0

\* 100 * x, an integer for every value of the model
Scaled(x) == (100 * x.num) \div x.den

RECURSIVE QualifyingSum(_, _, _)
\* the sum of 100 * r[field] over the records of recs that have the field
QualifyingSum(recs, field, zeroCounts) ==
    IF Len(recs) = 0 THEN 0
    ELSE (IF Has(recs[1][field], zeroCounts) THEN Scaled(recs[1][field].val) ELSE 0)
         + QualifyingSum(Tail(recs), field, zeroCounts)

QualifyingCount(recs, field, zeroCounts) ==
    Cardinality({i \in 1..Len(recs) : Has(recs[i][field], zeroCounts)})

\* avg is the mean of the field over the qualifying records of recs rounded
\* to `scale` units per 1 (100: two decimals, 10: one), or 0 without any
IsAverage(avg, recs, field, scale, zeroCounts) ==
    LET n == QualifyingCount(recs, field, zeroCounts)
        total == QualifyingSum(recs, field, zeroCounts)
    IN  IF n = 0 THEN ~avg.nan /\ avg.num = 0
        ELSE /\ ~avg.nan /\ (scale * avg.num) % avg.den = 0
             /\ 2 * scale * Abs(100 * n * avg.num - avg.den * total)
                   <= 100 * n * avg.den

AveragesOver(a, recs, zeroCounts) ==
    /\ IsAverage(a.avg_yield, recs, "dividend_yield", 100, zeroCounts)
    /\ IsAverage(a.avg_pnav, recs, "price_to_nav", 100, zeroCounts)
    /\ IsAverage(a.avg_gearing, recs, "gearing_ratio", 10, zeroCounts)

AllAverages(zeroCounts) ==
    /\ AveragesOver(portfolio_metrics, all_reits_data, zeroCounts)
    /\ \A s \in 1..Len(sector_summary) :
          AveragesOver(sector_summary[s].data,
                       InSector(all_reits_data, sector_summary[s].key),
                       zeroCounts)

ConfigIndex(ticker) ==
    CHOOSE i \in 1..Len(reits_config) : reits_config[i].ticker = ticker

\* the instruments whose turn in the loop is over
Processed == IF mpc = "fetched" THEN idx - 1 ELSE idx

\* the events of the trace that belong to the loop over the config
IsLoopEvent(e) == e.ev \in {"fetch_reit", "skip", "record"}
LoopTrace == SelectSeq(trace, IsLoopEvent)

\* C14: instruments are processed one at a time in config order; the
\* records list is a subsequence of the config in the same order, with at
\* most one record per instrument; and an instrument has no record exactly
\* when its fetched price series is null or empty.
C14_RecordsFollowConfig ==
    mpc # "idle" =>
        \* one at a time, in config order: fetch i, then skip i or record i
        /\ \A k \in 1..Len(LoopTrace) :
              IF k % 2 = 1
              THEN LoopTrace[k] = Event("fetch_reit", (k + 1) \div 2)
              ELSE /\ LoopTrace[k].ev \in {"skip", "record"}
                   /\ LoopTrace[k].i = k \div 2
        /\ Len(LoopTrace) = idx + Processed
        \* a subsequence of the config, in order
        /\ \A k \in 1..Len(all_reits_data) :
              /\ \E i \in 1..Processed :
                    /\ reits_config[i].ticker = all_reits_data[k].ticker
                    /\ reits_config[i].name = all_reits_data[k].name
                    /\ reits_config[i].segment = all_reits_data[k].segment
              /\ k > 1 => ConfigIndex(all_reits_data[k - 1].ticker)
                             < ConfigIndex(all_reits_data[k].ticker)
        \* the instrument just processed: no record iff no price series
        /\ (mpc = "loop" /\ idx >= 1) =>
              ((\A k \in 1..Len(all_reits_data) :
                    all_reits_data[k].ticker # reits_config[idx].ticker)
               <=> (hist_data.isNone \/ Len(hist_data.Close) = 0))
        \* a record, once appended, stays where it is
        /\ \A k \in 1..Len(LoopTrace) :
              LoopTrace[k].ev # "fetch_reit" =>
              (LoopTrace[k].ev = "record") =
                 \E j \in 1..Len(all_reits_data) :
                    all_reits_data[j].ticker = reits_config[LoopTrace[k].i].ticker
        \* the list handed on is the list the loop built
        /\ (mpc = "done" /\ ~main_ret.isNone) => main_ret.val = all_reits_data

\* three instruments, the second skipped: the list handed to aggregation has
\* the first and the third, in that order
C14_Witness ==
    /\ mpc = "render"
    /\ Len(reits_config) = 3
    /\ Len(all_reits_data) = 2
    /\ all_reits_data[1].ticker = reits_config[1].ticker
    /\ all_reits_data[2].ticker = reits_config[3].ticker
    /\ LoopTrace[4] = Event("skip", 2)

\* the sector of the segments of ReitPool: the static table, or 'Other'
ExpectedSector(segment) ==
    CASE segment = "Commercial/Retail" -> "Commercial"
      [] segment = "Logistics" -> "Logistics"
      [] segment = "Logistics/Commercial" -> "Logistics"
      [] segment = "Hospitality" -> "Other"

RecordsOf(sector) ==
    {k \in 1..Len(all_reits_data) :
        ExpectedSector(all_reits_data[k].segment) = sector}

RECURSIVE CountSum(_)
CountSum(summary) ==
    IF Len(summary) = 0 THEN 0
    ELSE summary[1].data.count + CountSum(Tail(summary))

\* C17: every record is counted in exactly one sector of the summary, the
\* one the static segment table gives or 'Other'; a sector's count is the
\* number of its records, with or without fundamentals; no sector has count
\* 0; the counts add up to the number of records.
C17_SectorCounts ==
    Aggregated =>
        /\ \A s, t \in 1..Len(sector_summary) :
              sector_summary[s].key = sector_summary[t].key => s = t
        /\ \A k \in 1..Len(all_reits_data) :
              \E s \in 1..Len(sector_summary) :
                 sector_summary[s].key = ExpectedSector(all_reits_data[k].segment)
        /\ \A s \in 1..Len(sector_summary) :
              /\ sector_summary[s].data.count
                    = Cardinality(RecordsOf(sector_summary[s].key))
              /\ sector_summary[s].data.count > 0
        /\ CountSum(sector_summary) = Len(all_reits_data)

\* two records in 'Logistics' and one, without fundamentals, in 'Other'
C17_Witness ==
    /\ Aggregated
    /\ Len(all_reits_data) = 3
    /\ \E s, t \in 1..Len(sector_summary) :
          /\ sector_summary[s].key = "Logistics"
          /\ sector_summary[s].data.count = 2
          /\ sector_summary[t].key = "Other"
          /\ sector_summary[t].data.count = 1
    /\ \E k \in 1..3 : /\ all_reits_data[k].segment = "Hospitality"
                       /\ all_reits_data[k].dividend_yield.isNone

\* the step of main an event belongs to
StepOf(e) ==
    CASE e.ev = "fetch_fundamentals" -> 1
      [] e.ev \in {"fetch_reit", "skip", "record"} -> 2
      [] e.ev = "aggregate" -> 3
      [] e.ev \in {"render", "render_raised"} -> 4
      [] e.ev \in {"notify", "notify_raised"} -> 5
      [] e.ev = "return" -> 6

Happened(ev) == \E k \in 1..Len(trace) : trace[k].ev = ev
TimesOfStep(n) == Cardinality({k \in 1..Len(trace) : StepOf(trace[k]) = n})

\* C18: the steps of main go strictly forward.  Fundamentals are fetched
\* exactly once, before any instrument; aggregation starts after the last
\* instrument; the dashboard is rendered after aggregation and before the
\* notifier is called; without any record the run ends without aggregating,
\* rendering or notifying; an exception of the notifier does not keep main
\* from returning the records.
C18_StrictlyForward ==
    mpc # "idle" =>
        \* forward, and every step but the loop at most once
        /\ \A j, k \in 1..Len(trace) :
              j < k => StepOf(trace[j]) <= StepOf(trace[k])
        /\ \A n \in {1, 3, 4, 5, 6} : TimesOfStep(n) <= 1
        \* fundamentals first, once
        /\ mpc # "start" => (Len(trace) >= 1 /\ trace[1].ev = "fetch_fundamentals")
        /\ Happened("fetch_reit") => Happened("fetch_fundamentals")
        \* aggregation after the last instrument
        /\ Happened("aggregate") =>
              /\ idx = Len(reits_config)
              /\ \A i \in 1..Len(reits_config) :
                    Happened("fetch_reit") /\
                    \E k \in 1..Len(trace) :
                       trace[k].i = i /\ trace[k].ev \in {"skip", "record"}
              /\ sector_summary = get_sector_summary(all_reits_data)
        \* dashboard after aggregation, notifier after the dashboard
        /\ (Happened("render") \/ Happened("render_raised")) => Happened("aggregate")
        /\ (Happened("notify") \/ Happened("notify_raised")) => Happened("render")
        \* no record: nothing but the return
        /\ (mpc = "done" /\ Len(all_reits_data) = 0) =>
              /\ TimesOfStep(3) + TimesOfStep(4) + TimesOfStep(5) = 0
              /\ main_ret = None
              /\ sector_summary = <<>> /\ portfolio_metrics = <<>>
        /\ (Len(all_reits_data) = 0 /\ idx = Len(reits_config)) =>
              mpc \in {"start", "loop", "fetched", "done"}
        \* the notifier's exception is swallowed
        /\ Happened("notify_raised") => mpc \in {"return", "done"}
        /\ (mpc = "done" /\ Len(all_reits_data) > 0) =>
              /\ main_ret = Some(all_reits_data)
              /\ Happened("notify") \/ Happened("notify_raised")

\* the notifier raised and main returned the two records it had collected
C18_Witness ==
    /\ mpc = "done"
    /\ Happened("notify_raised")
    /\ Len(all_reits_data) = 2
    /\ main_ret = Some(all_reits_data)
    /\ trace[Len(trace)].ev = "return"

---------------------------------------------------------------------------
(* src/telegram_bot.py, src/dashboard_gen.py: rankings by change_pct        *)

RECURSIVE InsertDesc(_, _)
\* mutant: a record goes before the records of equal change_pct
InsertDesc_TiesReversed(sorted, x) ==
    IF Len(sorted) = 0 THEN <<x>>
    ELSE IF ~Lt(x.change_pct, sorted[1].change_pct) THEN <<x>> \o sorted
    ELSE <<sorted[1]>> \o InsertDesc(Tail(sorted), x)

\* x put into a descending list after every record that is not smaller:
\* sorted() is stable, reverse=True keeps equal records in their order
InsertDesc(sorted, x) ==
    IF Len(sorted) = 0 THEN <<x>>
    ELSE IF Gt(x.change_pct, sorted[1].change_pct) THEN <<x>> \o sorted
    ELSE <<sorted[1]>> \o InsertDesc(Tail(sorted), x)

RECURSIVE SortedByChange(_)
\* sorted(reits_data, key=lambda x: x['change_pct'], reverse=True)
SortedByChange(reits_data) ==
    IF Len(reits_data) = 0 THEN <<>>
    ELSE InsertDesc(SortedByChange(SubSeq(reits_data, 1, Len(reits_data) - 1)),
                    reits_data[Len(reits_data)])

Min(a, b) == IF a < b THEN a ELSE b
Max(a, b) == IF a > b THEN a ELSE b

\* the selections of send_telegram_update; without credentials it returns
\* False before anything is ranked
send_telegram_update(configured, reits_data) ==
    IF ~configured
    THEN [sent |-> FALSE, top_3 |-> <<>>, bottom_3 |-> <<>>]
    ELSE LET sorted_data == SortedByChange(reits_data)
             n == Len(sorted_data)
         IN  [sent |-> TRUE,
              top_3 |-> SubSeq(sorted_data, 1, Min(3, n)),
              bottom_3 |-> SubSeq(sorted_data, Max(1, n - 2), n)]

\* the selections of generate_dashboard
generate_dashboard(reits_data) ==
    LET sorted_by_change == SortedByChange(reits_data)
        n == Len(sorted_by_change)
    IN  [top_gainer |-> IF n > 0 THEN Some(sorted_by_change[1]) ELSE None,
         top_loser |-> IF n > 0 THEN Some(sorted_by_change[n]) ELSE None]

---------------------------------------------------------------------------
(* Inputs of the library calls *)

\* most records handed to the notifier and the dashboard
MaxRanked == 5
\* most rows of the scraped table
MaxRows == 3

Tickers == <<"C38U.SI", "M44U.SI", "BUOU.SI", "J85.SI", "AJBU.SI", "ME8U.SI">>
ChangePcts == {F(-5, 10), F(0, 1), F(12, 10)}

RECURSIVE RankedLists(_)
\* the record lists of n instruments, in config order
RankedLists(n) ==
    IF n = 0 THEN {<<>>}
    ELSE {Append(q, [ticker |-> Tickers[n], change_pct |-> c]) :
             q \in RankedLists(n - 1), c \in ChangePcts}

RankedInputs == UNION {RankedLists(n) : n \in 0..MaxRanked}

\* names as the config file spells them
MatchNames ==
    {CICT.name,
     <<"CapitaLand", "Integrated", "Commercial", "Trust.">>,
     <<"Mapletree", "Logistics", "Trust">>,
     <<"Mapletree", "Logistics", "Commercial", "Trust">>,
     <<"Frasers", "Logistics", "Trust">>,
     <<"Frasers", "Logistics", "&", "Commercial", "Trust">>,
     <<"Mapletree", "REIT">>,
     <<"Keppel", "DC", "REIT">>,
     <<"CDL", "Hospitality", "Trusts">>}

\* mappings: every run of consecutive entries of the fallback table
MatchDicts ==
    {SubSeq(get_fallback_fundamental_data, a, b) :
        a \in 1..(Len(get_fallback_fundamental_data) + 1),
        b \in 0..Len(get_fallback_fundamental_data)}

RowPool ==
    {RowCICT(F(8, 1), F(7, 10), F(50, 1)), RowMapletree, RowFrasers,
     RowBadYield, RowNoName}

RECURSIVE RowSeqs(_)
RowSeqs(n) ==
    IF n = 0 THEN {<<>>}
    ELSE RowSeqs(n - 1) \cup
         {Append(q, r) : q \in {t \in RowSeqs(n - 1) : Len(t) = n - 1},
                         r \in RowPool}

Responses ==
    {HttpError, NoTables, [kind |-> "tables", tables |-> <<>>]}
    \cup {Page(rows) : rows \in RowSeqs(MaxRows)}

---------------------------------------------------------------------------
(* State machine of the library: one function is called, then returns *)

InitLib ==
    /\ pc = "idle" /\ result = NoResult
    /\ hist_data = [isNone |-> TRUE, Close |-> <<>>]
    /\ MainIdle
    /\ LibIdle

CanCall == stage = "idle"
Running(f) == fn = f /\ stage = "called"
Returns(f, value) ==
    /\ ret' = value
    /\ stage' = "returned"
    /\ UNCHANGED <<hist_data, analyzerVars, fn, args, mainVars>>
Calls(f, a) ==
    /\ fn' = f /\ args' = a /\ stage' = "called" /\ ret' = <<>>
    /\ UNCHANGED <<hist_data, analyzerVars, mainVars>>

CallMatch ==
    /\ CanCall
    /\ \E reit_name \in MatchNames, data \in MatchDicts :
          Calls("match_fundamental_data",
                [reit_name |-> reit_name, fundamental_data |-> data])

ReturnMatch ==
    /\ Running("match_fundamental_data")
    /\ Returns("match_fundamental_data",
               match_fundamental_data(args.reit_name, args.fundamental_data))

CallFetch ==
    /\ CanCall
    /\ \E response \in Responses :
          Calls("fetch_fundamental_data", [response |-> response])

ReturnFetch ==
    /\ Running("fetch_fundamental_data")
    /\ Returns("fetch_fundamental_data", fetch_fundamental_data(args.response))

CallSendUpdate ==
    /\ CanCall
    /\ \E configured \in BOOLEAN, reits_data \in RankedInputs :
          Calls("send_telegram_update",
                [configured |-> configured, reits_data |-> reits_data])

ReturnSendUpdate ==
    /\ Running("send_telegram_update")
    /\ Returns("send_telegram_update",
               send_telegram_update(args.configured, args.reits_data))

CallDashboard ==
    /\ CanCall
    /\ \E reits_data \in RankedInputs :
          Calls("generate_dashboard", [reits_data |-> reits_data])

ReturnDashboard ==
    /\ Running("generate_dashboard")
    /\ Returns("generate_dashboard", generate_dashboard(args.reits_data))

NextLib ==
    \/ CallMatch \/ ReturnMatch \/ CallFetch \/ ReturnFetch
    \/ CallSendUpdate \/ ReturnSendUpdate \/ CallDashboard \/ ReturnDashboard

SpecLib == InitLib /\ [][NextLib]_vars

HasReturned(f) == fn = f /\ stage = "returned"

---------------------------------------------------------------------------
(* Properties of the library *)

NotAmpersand(w) == w # "&"

\* the words of the normalized form of a name of MatchNames: lowercased, a
\* final "Trust" or "REIT" dropped, "&" and the full stop removed
ExpectedKey(name) ==
    LET n == Len(name)
    IN  IF name[n] \in {"Trust", "REIT"}
        THEN SelectSeq([i \in 1..(n - 1) |-> Lower(name[i])], NotAmpersand)
        ELSE IF name[n] = "Trust."
        THEN [i \in 1..n |-> IF i = n THEN "trust" ELSE Lower(name[i])]
        ELSE [i \in 1..n |-> Lower(name[i])]

SharedWords(k1, k2) == Cardinality({w \in Range(k1) : w \in Range(k2)})

\* C13: match_fundamental_data returns the record stored under the
\* normalized name when that key exists ("CapitaLand Integrated Commercial
\* Trust" finds "capitaland integrated commercial"); otherwise the record of
\* a key sharing the maximum number of words with the normalized name,
\* provided that number is at least 2; and null when the mapping is empty or
\* no key shares 2 words.
C13_MatchFundamentalData ==
    HasReturned("match_fundamental_data") =>
        LET data == args.fundamental_data
            keys == {data[i].key : i \in 1..Len(data)}
            name_key == ExpectedKey(args.reit_name)
        IN  /\ ExpectedKey(CICT.name) = <<"capitaland", "integrated", "commercial">>
            /\ IF name_key \in keys
               THEN \E i \in 1..Len(data) :
                       data[i].key = name_key /\ ret = Some(data[i].data)
               ELSE IF \E k \in keys : SharedWords(name_key, k) >= 2
               THEN \E i \in 1..Len(data) :
                       /\ ret = Some(data[i].data)
                       /\ \A k \in keys : SharedWords(name_key, k)
                                            <= SharedWords(name_key, data[i].key)
               ELSE ret = None

\* no key is the normalized name, three keys share two words with it and
\* the record of one of them is returned
C13_Witness ==
    /\ HasReturned("match_fundamental_data")
    /\ args.reit_name = <<"Mapletree", "Logistics", "Commercial", "Trust">>
    /\ Len(args.fundamental_data) = 10
    /\ ~ret.isNone
    /\ ret.val.full_name = <<"Mapletree", "Logistics", "Trust">>

\* the place in the config of a record of the ranked list
PlaceOf(r) == CHOOSE i \in 1..Len(args.reits_data) : args.reits_data[i] = r

Selects(sel, r) == \E k \in 1..Len(sel) : sel[k] = r
Tied(r1, r2) == Eq(r1.change_pct, r2.change_pct)

\* tied records appear in sel in config order
TiesInConfigOrder(sel) ==
    \A j, k \in 1..Len(sel) :
        (j < k /\ Tied(sel[j], sel[k])) => PlaceOf(sel[j]) < PlaceOf(sel[k])

\* of two tied records, sel never has the later one without the earlier one
EarlierFirst(sel) ==
    /\ TiesInConfigOrder(sel)
    /\ \A i, j \in 1..Len(args.reits_data) :
          (i < j /\ Tied(args.reits_data[i], args.reits_data[j])
             /\ Selects(sel, args.reits_data[j]))
          => Selects(sel, args.reits_data[i])

\* of two tied records, sel never has the earlier one without the later one
LaterFirst(sel) ==
    /\ TiesInConfigOrder(sel)
    /\ \A i, j \in 1..Len(args.reits_data) :
          (i < j /\ Tied(args.reits_data[i], args.reits_data[j])
             /\ Selects(sel, args.reits_data[i]))
          => Selects(sel, args.reits_data[j])

AsList(opt) == IF opt.isNone THEN <<>> ELSE <<opt.val>>
Ranked(f) == HasReturned(f) /\ (f = "send_telegram_update" => ret.sent)

\* C15 (as stated): in the top 3 and bottom 3 of the notifier and in the
\* top gainer and top loser of the dashboard, records of equal change_pct
\* are ranked in config order and the one earlier in the config is selected
\* first.
C15_EarlierTiedSelectedFirst ==
    /\ Ranked("send_telegram_update") =>
          EarlierFirst(ret.top_3) /\ EarlierFirst(ret.bottom_3)
    /\ Ranked("generate_dashboard") =>
          EarlierFirst(AsList(ret.top_gainer)) /\ EarlierFirst(AsList(ret.top_loser))

\* C15 (amended): tied records are listed in config order in every
\* selection; the top 3 and the top gainer take the earlier of tied records
\* first, the bottom 3 and the top loser take the later of tied records
\* first.
C15_StableRanking ==
    /\ Ranked("send_telegram_update") =>
          EarlierFirst(ret.top_3) /\ LaterFirst(ret.bottom_3)
    /\ Ranked("generate_dashboard") =>
          EarlierFirst(AsList(ret.top_gainer)) /\ LaterFirst(AsList(ret.top_loser))

\* four tied records among five: the top 3 has the first three of them, the
\* bottom 3 the last three
C15_Witness ==
    /\ Ranked("send_telegram_update")
    /\ Len(args.reits_data) = 5
    /\ \A i \in 1..4 : Tied(args.reits_data[i], args.reits_data[1])
    /\ Gt(args.reits_data[1].change_pct, args.reits_data[5].change_pct)
    /\ ret.top_3 = SubSeq(args.reits_data, 1, 3)
    /\ ret.bottom_3 = SubSeq(args.reits_data, 3, 5)

\* the table the page holds, if it holds one
RowsOf(response) ==
    IF response.kind = "tables" /\ Len(response.tables) > 0
    THEN response.tables[1] ELSE <<>>

\* a row with a name and a yield cell that is a string: every other cell is
\* converted by safe_float, which does not raise
WellFormed(row) == row.Name.kind = "num" /\ row.DistributionYield.type = "str"

NameOf(row) == row.Name.val

\* the entry stored for a well-formed row: its name, its cells as numbers,
\* 0.0 for a cell that holds none
StoredFor(d, row) ==
    \E e \in 1..Len(d) :
        /\ d[e].data.full_name = NameOf(row)
        /\ d[e].data.price_to_nav =
              (IF row.PriceToBook.kind = "num" THEN row.PriceToBook.val ELSE F(0, 1))
        /\ d[e].data.dividend_yield =
              (IF row.DistributionYield.kind = "num"
               THEN row.DistributionYield.val ELSE F(0, 1))

\* C16: fetch_fundamental_data never raises and never returns an empty
\* mapping; it returns the fallback table when the request fails, when the
\* page has no table and when no row could be parsed; a row that fails is
\* skipped and the rows before and after it are kept.
C16_FetchNeverEmpty ==
    HasReturned("fetch_fundamental_data") =>
        LET rows == RowsOf(args.response)
            good == {i \in 1..Len(rows) : WellFormed(rows[i])}
        IN  /\ ~ret.raised
            /\ Len(ret.value) > 0
            /\ good = {} => ret.value = get_fallback_fundamental_data
            /\ good # {} =>
                  /\ \A i \in good : StoredFor(ret.value, rows[i])
                  /\ \A e \in 1..Len(ret.value) :
                        \E i \in good : ret.value[e].data.full_name = NameOf(rows[i])
                  /\ Len(ret.value) = Cardinality({NameOf(rows[i]) : i \in good})

\* the second of three rows raises: the first and the third are returned
C16_Witness ==
    /\ HasReturned("fetch_fundamental_data")
    /\ args.response.kind = "tables"
    /\ Len(RowsOf(args.response)) = 3
    /\ WellFormed(RowsOf(args.response)[1])
    /\ RowsOf(args.response)[2] = RowBadYield
    /\ RowsOf(args.response)[3] = RowFrasers
    /\ Len(ret.value) = 2
    /\ ret.value[2].data.full_name = NameOf(RowFrasers)

====
